---- MODULE Spec2Model ----
(***************************************************************************)
(* PyLLM: the generation / extraction / validation loop.                   *)
(*                                                                         *)
(*   CodeLLM.def_function       src/pyllm/interfaces/baseline.py           *)
(*   CacheHandler               src/pyllm/utils/caching.py                 *)
(*   CodeGenerator.unit_test    src/pyllm/interfaces/base.py               *)
(*   RegExParser.parse_function src/pyllm/parsers/regex_parser.py          *)
(*   SelfDebugLLM.def_function  src/pyllm/interfaces/self_debug.py         *)
(*                                                                         *)
(* Three specifications share the definitions below:                       *)
(*   Spec      one caller, calls of CodeLLM.def_function one after another *)
(*   SpecConc  two callers (threads or processes) running                  *)
(*             CodeLLM.def_function against the one cache file             *)
(*   SpecSD    one caller running SelfDebugLLM.def_function                *)
(***************************************************************************)
EXTENDS Integers, Sequences, FiniteSets, TLC

(***************************************************************************)
(* Bounds of the model.                                                    *)
(***************************************************************************)
\* largest n_retries a call is started with
MaxRetries == 2
\* largest number of unit test cases a call is started with
MaxCases == 2

\* largest seed randint draws (line 149 draws from 0..2**62)
MaxSeed == 2

\* max_turns: int = 2, the largest max_turns a call is started with
DefaultMaxTurns == 2

None == "None"

\* seed: Optional[int] = None of a SamplingParams never given a seed
NoSeed == 0
\* the seeds randint draws in the model
Seeds == 1..MaxSeed

(***************************************************************************)
(* Callers, prompts and model replies.                                     *)
(***************************************************************************)
Callers == {"c1", "c2"}
Prompts == {"p1", "p2"}

\* Replies of the model that carry text.  What the text holds decides what
\* the extractor and the harness make of it (see Blocks and Run below).
\*   pass_a, pass_b  one function that returns the expected output on every case
\*   fail_wrong      one function whose output on the first case is wrong
\*   fail_err        one function that raises on the second case
\*   nofn            prose only: no def block
\*   syntax          a def block that is not valid source
Texts == {"pass_a", "pass_b", "fail_wrong", "fail_err", "nofn", "syntax"}

\* A query that ends in RequestException: the body of the response is a JSON
\* document (err_json) or is not (err_html, e.g. a gateway's error page).
TransportErrors == {"err_json", "err_html"}

Replies == Texts \cup TransportErrors

VARIABLES
    \* ---- the cache file and its lock (caching.py) ----
    cache_file,     \* [st, map]: the file cached_functions.json
    lock,           \* the caller holding cached_functions.json.lock, or None
    file_open,      \* per caller: the mode its CacheHandler has the file open in
    \* ---- CodeLLM.def_function, per caller (baseline.py) ----
    phase,          \* where the call is: idle, lookup, loop, store_read, store_write
    ch,             \* the step of the CacheHandler transaction of that phase
    prompt, use_cached, n_retries, unit_tests,   \* the call's arguments
    model_response, \* local model_response
    function,       \* local function
    cur_try,        \* iterations of the retry loop started so far
    new_cache,      \* local new_cache (line 209)
    result,         \* how the last call ended: [kind, function, source]
    default_sampling_params,  \* seed of the SamplingParams object that is the
                    \* default of parameter sampling_params (line 99): one
                    \* object, made when the method is defined
    sampling_params,\* local sampling_params: the object it refers to
    \* ---- observation ----
    nQueries,       \* client.query calls issued by the current call
    attempts,       \* the reply each attempt of the current call got
    cache_hit,      \* the current call found its prompt in the cache
    cache_entry,    \* cache[prompt] as that lookup read it
    query_seed,     \* the seed the last query of the current call carried
    stored,         \* per prompt: source of the last Function returned for it
                    \* by a call that ended before the latest call began
    \* ---- SelfDebugLLM.def_function, one caller (self_debug.py) ----
    sd_pc,          \* idle, retry (head of the outer loop), turn, feedback, done
    feedback_mode,  \* self.feedback_mode
    prompt_template,\* self.prompt_template: the repository's PromptTemplate or a custom one
    sd_n_retries, max_turns, sd_unit_tests,      \* the call's arguments
    sd_cur_try,     \* outer iterations started so far
    turn,           \* inner iterations finished in this outer iteration
    messages,       \* local messages
    success_feedback,
    success_turn_function,
    success_turn_model_response,                 \* None while unbound
    sd_model_response,                           \* local model_response
    sd_function,                                 \* local function
    failures,       \* local failures of the turn that failed
    sd_result,      \* how the call ended: [kind, function, source]
    sd_seed,        \* local seed (line 146)
    sd_default_sampling_params,  \* seed of the SamplingParams object that is
                    \* the default of parameter sampling_params (line 135):
                    \* one object, shared by every call that passes none
    sd_prompt,      \* argument prompt
    sd_use_cached,  \* argument use_cached (line 133)
    \* ---- observation ----
    sd_prev,        \* the call that ended before the current one began:
                    \* [prompt, queries], or NoCall
    sd_nQueries,    \* client.query calls issued by the current call
    sd_turns,       \* per turn of the call: [try, confirm, reply, seed] and
                    \* the reply and seed of its explanation or trace query
    \* ---- CodeGenerator.unit_test, one call (base.py) ----
    ut_pc,          \* idle, loop (lines 78-117), done (returned), raised,
                    \* logged (the caller has reported the results)
    ut_function,    \* the candidate: what running it on the i-th case does
    ut_tests,       \* argument unit_tests: the cases, in order
    results,        \* local results
    error_message,  \* the caller's local error_message (baseline.py 186-193)
    \* ---- RegExParser.parse_function, per thread (regex_parser.py) ----
    namespace,      \* globals() of the parser's module: per name, the text
                    \* whose def block bound it last, or None
    ns_order,       \* the names of namespace in the order they were first
                    \* bound, the order namespace.items() yields them in
    pf_pc,          \* idle, exec (lines 73-84), lookup (lines 86-88), done
    input_string,   \* argument input_string
    resized,        \* another thread's exec added a name to namespace while
                    \* this thread was at the loop over namespace.items()
    pf_result       \* what the call returned or raised

clVars == <<cache_file, lock, file_open, phase, ch, prompt, use_cached, n_retries,
            unit_tests, model_response, function, cur_try, new_cache, result,
            default_sampling_params, sampling_params,
            nQueries, attempts, cache_hit, cache_entry, query_seed, stored>>

sdVars == <<sd_pc, feedback_mode, prompt_template, sd_n_retries, max_turns,
            sd_unit_tests, sd_cur_try, turn, messages, success_feedback,
            success_turn_function, success_turn_model_response, sd_model_response,
            sd_function, failures, sd_result, sd_seed,
            sd_default_sampling_params, sd_nQueries, sd_turns,
            sd_prompt, sd_use_cached, sd_prev>>

sdCallVars == <<sd_prompt, sd_use_cached, sd_prev>>

utVars == <<ut_pc, ut_function, ut_tests, results, error_message>>

pfVars == <<namespace, ns_order, pf_pc, input_string, resized, pf_result>>

vars == <<clVars, sdVars, utVars, pfVars>>

(***************************************************************************)
(* RegExParser.parse_function                                              *)
(***************************************************************************)
\* The def blocks the function pattern finds in a text, in order; each
\* block with whether ast.parse accepts it and the function it defines.
Blocks(t) ==
    CASE t = "nofn"   -> <<>>
      [] t = "syntax" -> << [ok |-> FALSE, fn |-> None] >>
      [] OTHER        -> << [ok |-> TRUE, fn |-> t] >>

\* [raises |-> an exception or None, fn |-> the callable returned or None].
\* A block that does not parse raises SyntaxError; no block returns None.
\* The name a def block evaluates when it is executed (in a default value
\* of a parameter, as in `def f(x=g(0)):`), or None.
Evaluates(t) == IF t = "def_f_default_g" THEN "g" ELSE None

\* line 84: exec(code, namespace) of a block that evaluates a name raises
\* NameError unless globals() binds the name
ExecRaises(t) == Evaluates(t) # None /\ namespace[Evaluates(t)] = None

parse_function(t) ==
    IF Blocks(t) = <<>>
    THEN [raises |-> None, fn |-> None]
    ELSE IF ~Blocks(t)[1].ok
         THEN [raises |-> "SyntaxError", fn |-> None]
         ELSE IF ExecRaises(t)
         THEN [raises |-> "NameError", fn |-> None]
         ELSE [raises |-> None, fn |-> Blocks(t)[1].fn]

(***************************************************************************)
(* CodeGenerator.unit_test                                                 *)
(***************************************************************************)
\* Case i has input i and expected output Expected(i).
Expected(i) == 10 + i
\* yhat of a case that raised: None
NoOutput == -1

\* What calling the callable on case i does: "raise", or the value returned.
\* Calling None raises TypeError.
Run(fn, i) ==
    CASE fn = None                   -> "raise"
      [] fn = "fail_wrong" /\ i = 1  -> "wrong"
      [] fn = "fail_err" /\ i = 2    -> "raise"
      [] OTHER                       -> "ok"

UnitTestResult(fn, i) ==
    IF Run(fn, i) = "raise"
    THEN [id |-> i - 1, x |-> i, y |-> Expected(i), yhat |-> NoOutput, error |-> TRUE]
    ELSE [id |-> i - 1, x |-> i, y |-> Expected(i),
          yhat |-> IF Run(fn, i) = "ok" THEN Expected(i) ELSE Expected(i) + 1,
          error |-> FALSE]

\* UnitTestResult.failed
failed(r) == r.y # r.yhat \/ r.error

\* One result per case, in order; an exception of a case is captured.
unit_test(fn, n) == [i \in 1..n |-> UnitTestResult(fn, i)]

(***************************************************************************)
(* The cache file                                                          *)
(***************************************************************************)
Absent == [model_response |-> None, sampling_params |-> NoSeed, parser |-> None]
\* lines 211-215: text t, asdict(sampling_params) with seed s, the parser's class
Entry(t, s) == [model_response |-> t, sampling_params |-> s, parser |-> "RegExParser"]
EmptyMap == [p \in Prompts |-> Absent]

\* st: missing (never created), empty (truncated by open(.., "w")),
\*     garbage (bytes that are no JSON document), valid (a JSON mapping: map)
FileMissing == [st |-> "missing", map |-> EmptyMap]
FileEmpty   == [st |-> "empty", map |-> EmptyMap]
FileGarbage == [st |-> "garbage", map |-> EmptyMap]
FileValid(m) == [st |-> "valid", map |-> m]

\* json.load(f) raises JSONDecodeError unless the file holds a JSON document
Loads(f) == f.st = "valid"

\* m extends k: every entry of k is the same in m
Extends(m, k) == \A p \in Prompts : k[p] = Absent \/ m[p] = k[p]

\* json.dump(m, f); f.close() on a handle opened with "w": the bytes of m
\* are written from offset 0 over what the file holds now.  The file was
\* truncated when this handle was opened; if nothing was written since, or
\* what was written is a prefix-compatible shorter document, the file holds
\* m.  Over a longer document of another writer its tail is left behind.
FlushResults(f, m) ==
    IF f.st \in {"missing", "empty"} \/ (f.st = "valid" /\ Extends(m, f.map))
    THEN {FileValid(m)}
    ELSE {FileValid(m), FileGarbage}

(***************************************************************************)
(* Initial state                                                           *)
(***************************************************************************)
\* kind: none (no call has ended), Function (returned), or the exception that
\* left the call; line: the line of the return or raise
\* What a variable of type SamplingParams refers to: the default object of
\* line 99, or an object of the call's own made at line 133 with seed s.
DefaultObject == [obj |-> "default", seed |-> NoSeed]
\* a reference to the default object in place of an object of the call's own
SharedObject(s) == [obj |-> "default", seed |-> NoSeed]

FreshObject(s) == [obj |-> "fresh", seed |-> s]

\* Texts given to the parser: a text with one def block (def f in two
\* versions with different bodies, def g) or prose without a def block.
\* None has imports.
ParserTexts == {"def_f_v1", "def_f_v2", "def_g", "prose"}
Names == {"f", "g"}

\* Texts whose first def block holds more than its own def, or is followed
\* by another block: def f with a nested def g in its body; a block def g
\* followed by a block def f.
OrderTexts == ParserTexts \cup {"def_f_nested_g", "def_g_then_f"}

\* the name the first def block of a text binds when it is executed
NameOf(t) == IF t \in {"def_g", "def_g_then_f"} THEN "g" ELSE "f"

\* lines 77-80: function_names of the first block, the name of every
\* FunctionDef node that ast.walk finds in it, nested ones included
FunctionNames(t) == IF t = "def_f_nested_g" THEN {"f", "g"} ELSE {NameOf(t)}

\* lines 66-71: the function pattern finds a block in the text
HasBlock(t) == t # "prose"

\* parse_function has not returned: no value yet
NoParse == [kind |-> "none", fn |-> None]

\* no warning was logged
NoMessage == [count |-> 0, total |-> 0, lines |-> <<>>]

NoResult == [kind |-> "none", function |-> None, source |-> None, line |-> 0]

\* no call of SelfDebugLLM.def_function has ended yet
NoCall == [prompt |-> None, queries |-> 0]

Init ==
    /\ cache_file = FileMissing
    /\ lock = None
    /\ file_open = [c \in Callers |-> "closed"]
    /\ phase = [c \in Callers |-> "idle"]
    /\ ch = [c \in Callers |-> "none"]
    /\ prompt = [c \in Callers |-> "p1"]
    /\ use_cached = [c \in Callers |-> FALSE]
    /\ n_retries = [c \in Callers |-> 0]
    /\ unit_tests = [c \in Callers |-> 0]
    /\ model_response = [c \in Callers |-> None]
    /\ function = [c \in Callers |-> None]
    /\ cur_try = [c \in Callers |-> 0]
    /\ new_cache = [c \in Callers |-> EmptyMap]
    /\ result = [c \in Callers |-> NoResult]
    /\ nQueries = [c \in Callers |-> 0]
    /\ attempts = [c \in Callers |-> <<>>]
    /\ cache_hit = [c \in Callers |-> FALSE]
    /\ stored = [p \in Prompts |-> None]
    /\ default_sampling_params = NoSeed
    /\ sampling_params = [c \in Callers |-> DefaultObject]
    /\ cache_entry = [c \in Callers |-> Absent]
    /\ query_seed = [c \in Callers |-> NoSeed]
    /\ sd_pc = "idle"
    /\ feedback_mode = "simple"
    /\ prompt_template = "custom"
    /\ sd_n_retries = 0
    /\ max_turns = 0
    /\ sd_unit_tests = 0
    /\ sd_cur_try = 0
    /\ turn = 0
    /\ messages = <<>>
    /\ success_feedback = FALSE
    /\ success_turn_function = None
    /\ success_turn_model_response = None
    /\ sd_model_response = None
    /\ sd_function = None
    /\ failures = <<>>
    /\ sd_result = NoResult
    /\ sd_seed = NoSeed
    /\ sd_default_sampling_params = NoSeed
    /\ sd_prompt = "p1"
    /\ sd_use_cached = TRUE
    /\ sd_prev = NoCall
    /\ sd_nQueries = 0
    /\ sd_turns = <<>>
    /\ ut_pc = "idle"
    /\ ut_function = [i \in 1..MaxCases |-> "ok"]
    /\ ut_tests = <<>>
    /\ results = <<>>
    /\ error_message = NoMessage
    /\ namespace = [n \in Names |-> None]
    /\ ns_order = <<>>
    /\ pf_pc = [t \in Callers |-> "idle"]
    /\ input_string = [t \in Callers |-> "prose"]
    /\ resized = [t \in Callers |-> FALSE]
    /\ pf_result = [t \in Callers |-> NoParse]

(***************************************************************************)
(* CacheHandler.__enter__ / __exit__                                       *)
(***************************************************************************)
\* the mode the CacheHandler of a phase is built with
Mode(ph) == IF ph = "store_write" THEN "w" ELSE "r"

\* __enter__, line 47: self.lock.acquire() blocks until the lock is free
Acquire(c) ==
    /\ ch[c] = "acquire"
    /\ lock = None
    /\ lock' = c
    /\ ch' = [ch EXCEPT ![c] = "validate"]
    /\ UNCHANGED <<cache_file, file_open, phase, prompt, use_cached, n_retries,
                   unit_tests, model_response, function, cur_try, new_cache,
                   result, nQueries, attempts, cache_hit, stored,
                   default_sampling_params, sampling_params, cache_entry, query_seed>>
    /\ UNCHANGED <<sdVars, utVars, pfVars>>

\* an __enter__ that leaves the lock to __exit__
HeldUntilExit(c) == c

\* __enter__, lines 60-61: finally self.lock.release(); who holds the lock
\* when the try statement is left
ReleasedInFinally(c) == None

\* __enter__, lines 48-61: a missing file is created holding {}, a file that
\* json.load rejects is rewritten to {}; finally the lock is released
Validate(c) ==
    /\ ch[c] = "validate"
    /\ lock = c
    /\ cache_file' = IF Loads(cache_file) THEN cache_file ELSE FileValid(EmptyMap)
    /\ lock' = ReleasedInFinally(c)
    /\ ch' = [ch EXCEPT ![c] = "open"]
    /\ UNCHANGED <<file_open, phase, prompt, use_cached, n_retries,
                   unit_tests, model_response, function, cur_try, new_cache,
                   result, nQueries, attempts, cache_hit, stored,
                   default_sampling_params, sampling_params, cache_entry, query_seed>>
    /\ UNCHANGED <<sdVars, utVars, pfVars>>

\* __enter__, lines 63-64: open(_CACHE_FILE, mode); mode "w" truncates the file
Open(c) ==
    /\ ch[c] = "open"
    /\ file_open' = [file_open EXCEPT ![c] = Mode(phase[c])]
    /\ cache_file' = IF Mode(phase[c]) = "w" THEN FileEmpty ELSE cache_file
    /\ ch' = [ch EXCEPT ![c] = "body"]
    /\ UNCHANGED <<lock, phase, prompt, use_cached, n_retries,
                   unit_tests, model_response, function, cur_try, new_cache,
                   result, nQueries, attempts, cache_hit, stored,
                   default_sampling_params, sampling_params, cache_entry, query_seed>>
    /\ UNCHANGED <<sdVars, utVars, pfVars>>

(***************************************************************************)
(* CodeLLM.def_function                                                    *)
(***************************************************************************)
Raised(kind, line) == [kind |-> kind, function |-> None, source |-> None, line |-> line]
Returned(fn, src, line) == [kind |-> "Function", function |-> fn, source |-> src, line |-> line]

\* the seed a SamplingParams reference shows now
SeedOf(sp) == IF sp.obj = "default" THEN default_sampling_params ELSE sp.seed

\* lines 220-226: the Function returned keeps the reference sampling_params
\* (types.py line 71); seed is what that object showed at the return, and
\* cached the entry the cache file f held for prompt p at the return
ReturnedWith(fn, src, sp, f, p, line) ==
    [kind |-> "Function", function |-> fn, source |-> src, line |-> line,
     sampling_params |-> sp, seed |-> SeedOf(sp),
     cached |-> IF Loads(f) THEN f.map[p] ELSE Absent]

\* The call of c ends with res (a Function returned, or an exception that
\* leaves def_function).  An open CacheHandler is left through __exit__
\* (lines 66-72: the file is closed; the lock is no longer held).
EndCall(c, res) ==
    /\ result' = [result EXCEPT ![c] = res]
    /\ phase' = [phase EXCEPT ![c] = "idle"]
    /\ ch' = [ch EXCEPT ![c] = "none"]
    /\ file_open' = [file_open EXCEPT ![c] = "closed"]
    /\ model_response' = [model_response EXCEPT ![c] = None]
    /\ function' = [function EXCEPT ![c] = None]
    /\ cur_try' = [cur_try EXCEPT ![c] = 0]
    /\ new_cache' = [new_cache EXCEPT ![c] = EmptyMap]

\* line 128, `if use_cached:`: where the call goes first
FirstPhase(u) == IF u THEN "lookup" ELSE "loop"

\* lines 91-128, 140-147: the call starts; with use_cached it goes to the
\* cache first, else straight to the retry loop
def_function(c, P, R, K, U) ==
    /\ phase[c] = "idle"
    /\ \E p \in P, k \in R, n \in K, u \in U :
          /\ prompt' = [prompt EXCEPT ![c] = p]
          /\ n_retries' = [n_retries EXCEPT ![c] = k]
          /\ unit_tests' = [unit_tests EXCEPT ![c] = n]
          /\ use_cached' = [use_cached EXCEPT ![c] = u]
          /\ phase' = [phase EXCEPT ![c] = FirstPhase(u)]
          /\ ch' = [ch EXCEPT ![c] = IF FirstPhase(u) = "lookup"
                                     THEN "acquire" ELSE "none"]
    /\ model_response' = [model_response EXCEPT ![c] = None]
    /\ function' = [function EXCEPT ![c] = None]
    /\ cur_try' = [cur_try EXCEPT ![c] = 0]
    /\ result' = [result EXCEPT ![c] = NoResult]
    /\ nQueries' = [nQueries EXCEPT ![c] = 0]
    /\ attempts' = [attempts EXCEPT ![c] = <<>>]
    /\ cache_hit' = [cache_hit EXCEPT ![c] = FALSE]
    /\ stored' = IF result[c].kind = "Function"
                 THEN [stored EXCEPT ![prompt[c]] = result[c].source] ELSE stored
    /\ sampling_params' = [sampling_params EXCEPT ![c] = DefaultObject]
    /\ cache_entry' = [cache_entry EXCEPT ![c] = Absent]
    /\ query_seed' = [query_seed EXCEPT ![c] = NoSeed]
    /\ UNCHANGED <<cache_file, lock, file_open, new_cache, default_sampling_params>>
    /\ UNCHANGED <<sdVars, utVars, pfVars>>

\* a lookup that catches the parser's exception and goes on with no function
HitRaisesCaught(hit, pr) == FALSE

\* line 137 is in no try block: on a hit, an exception of the parser leaves
\* the with block and the call
HitRaises(hit, pr) == hit /\ pr.raises # None

\* lines 129-137: cache = json.load(f); on a hit the stored text is parsed
\* again by the parser the entry names; then __exit__
LookupBody(c) ==
    /\ phase[c] = "lookup"
    /\ ch[c] = "body"
    /\ LET hit == cache_file.map[prompt[c]] # Absent
           t   == cache_file.map[prompt[c]].model_response
           pr  == parse_function(t)
       IN  IF ~Loads(cache_file)
           THEN EndCall(c, Raised("JSONDecodeError", 130))
           ELSE IF HitRaises(hit, pr)
           THEN EndCall(c, Raised(pr.raises, 137))
           ELSE /\ model_response' = [model_response EXCEPT ![c] = IF hit THEN t ELSE None]
                /\ function' = [function EXCEPT ![c] = IF hit THEN pr.fn ELSE None]
                /\ phase' = [phase EXCEPT ![c] = IF hit THEN "store_read" ELSE "loop"]
                /\ ch' = [ch EXCEPT ![c] = IF hit THEN "acquire" ELSE "none"]
                /\ file_open' = [file_open EXCEPT ![c] = "closed"]
                /\ UNCHANGED <<cur_try, new_cache, result>>
    /\ cache_hit' = [cache_hit EXCEPT ![c] =
                        Loads(cache_file) /\ cache_file.map[prompt[c]] # Absent]
    \* line 133: sampling_params = SamplingParams(**cache[prompt]["sampling_params"])
    /\ sampling_params' = [sampling_params EXCEPT ![c] =
            IF Loads(cache_file) /\ cache_file.map[prompt[c]] # Absent
            THEN FreshObject(cache_file.map[prompt[c]].sampling_params) ELSE @]
    /\ cache_entry' = [cache_entry EXCEPT ![c] =
            IF Loads(cache_file) THEN cache_file.map[prompt[c]] ELSE Absent]
    /\ UNCHANGED <<cache_file, lock, prompt, use_cached, n_retries, unit_tests,
                   nQueries, attempts, stored, default_sampling_params, query_seed>>
    /\ UNCHANGED <<sdVars, utVars, pfVars>>

\* a loop that runs one iteration too many
LoopContinuesOffByOne(c) == cur_try[c] <= n_retries[c]

\* line 148: for cur_try in range(n_retries) has another iteration
LoopContinues(c) == cur_try[c] < n_retries[c]

\* lines 179-185: the candidate of an attempt passes when no unit tests were
\* supplied or no result of the harness has failed
Passes(fn, n) == n = 0 \/ \A i \in 1..n : ~failed(unit_test(fn, n)[i])

\* lines 148-202: one iteration of the retry loop with reply r.
\*   RequestException: the handler decodes the body as JSON (line 159), which
\*     raises for a body that is none; else continue
\*   SyntaxError from the parser: continue; another exception of the
\*     parser is not caught
\*   a failed unit test: continue
\*   else break
\* Accepts: the reply takes the iteration to the break of line 202
\* a loop whose passing iteration does not break
AcceptsNoBreak(r, n) == FALSE

Accepts(r, n) ==
    /\ r \notin TransportErrors
    /\ parse_function(r).raises = None
    /\ Passes(parse_function(r).fn, n)

Attempt(c, RS, SS) ==
    /\ phase[c] = "loop"
    /\ LoopContinues(c)
    /\ \E r \in RS, seed \in SS :
        LET pr == parse_function(r)
            transport == r \in TransportErrors
            parsed == ~transport /\ pr.raises = None
            break == Accepts(r, unit_tests[c])
        IN  /\ nQueries' = [nQueries EXCEPT ![c] = @ + 1]
            /\ attempts' = [attempts EXCEPT ![c] = Append(@, r)]
            \* lines 149-150, 153-155: sampling_params.seed = seed writes the
            \* object the local refers to, in the loop the default object;
            \* the query is passed that object
            /\ default_sampling_params' = seed
            /\ query_seed' = [query_seed EXCEPT ![c] = seed]
            /\ IF r = "err_html"
               THEN EndCall(c, Raised("JSONDecodeError", 159))
               ELSE IF ~transport /\ pr.raises \notin {None, "SyntaxError"}
               \* lines 165-177: an exception of the parser that is neither
               \* SyntaxError nor NothingToParseError leaves the call
               THEN EndCall(c, Raised(pr.raises, 166))
               ELSE /\ cur_try' = [cur_try EXCEPT ![c] = @ + 1]
                    /\ model_response' = [model_response EXCEPT ![c] =
                                             IF transport THEN @ ELSE r]
                    /\ function' = [function EXCEPT ![c] = IF parsed THEN pr.fn ELSE @]
                    /\ phase' = [phase EXCEPT ![c] = IF break THEN "store_read" ELSE "loop"]
                    /\ ch' = [ch EXCEPT ![c] = IF break THEN "acquire" ELSE "none"]
                    /\ UNCHANGED <<file_open, new_cache, result>>
    /\ UNCHANGED <<cache_file, lock, prompt, use_cached, n_retries, unit_tests,
                   cache_hit, stored, sampling_params, cache_entry>>
    /\ UNCHANGED <<sdVars, utVars, pfVars>>

\* lines 204-205: the loop ran out without a break
LoopExhausted(c) ==
    /\ phase[c] = "loop"
    /\ ~LoopContinues(c)
    /\ EndCall(c, Raised("TooManyRetries", 205))
    /\ UNCHANGED <<cache_file, lock, prompt, use_cached, n_retries, unit_tests,
                   nQueries, attempts, cache_hit, stored,
                   default_sampling_params, sampling_params, cache_entry, query_seed>>
    /\ UNCHANGED <<sdVars, utVars, pfVars>>

\* a store that keeps the entry of its own prompt only
MergeOwnOnly(m, p, e) == [EmptyMap EXCEPT ![p] = e]

\* lines 211-215: new_cache[prompt] = entry
Merge(m, p, e) == [m EXCEPT ![p] = e]

\* lines 208-215: new_cache = json.load(f); __exit__; new_cache[prompt] = entry
StoreReadBody(c) ==
    /\ phase[c] = "store_read"
    /\ ch[c] = "body"
    /\ IF ~Loads(cache_file)
       THEN EndCall(c, Raised("JSONDecodeError", 209))
       ELSE /\ new_cache' = [new_cache EXCEPT ![c] =
                   Merge(cache_file.map, prompt[c],
                         Entry(model_response[c], SeedOf(sampling_params[c])))]
            /\ phase' = [phase EXCEPT ![c] = "store_write"]
            /\ ch' = [ch EXCEPT ![c] = "acquire"]
            /\ file_open' = [file_open EXCEPT ![c] = "closed"]
            /\ UNCHANGED <<model_response, function, cur_try, result>>
    /\ UNCHANGED <<cache_file, lock, prompt, use_cached, n_retries, unit_tests,
                   nQueries, attempts, cache_hit, stored,
                   default_sampling_params, sampling_params, cache_entry, query_seed>>
    /\ UNCHANGED <<sdVars, utVars, pfVars>>

\* lines 217-226: json.dump(new_cache, f); __exit__; return Function(...)
StoreWriteBody(c) ==
    /\ phase[c] = "store_write"
    /\ ch[c] = "body"
    /\ cache_file' \in FlushResults(cache_file, new_cache[c])
    /\ EndCall(c, ReturnedWith(function[c], model_response[c], sampling_params[c],
                                cache_file', prompt[c], 220))
    /\ UNCHANGED <<lock, prompt, use_cached, n_retries, unit_tests,
                   nQueries, attempts, cache_hit, stored,
                   default_sampling_params, sampling_params, cache_entry, query_seed>>
    /\ UNCHANGED <<sdVars, utVars, pfVars>>

(***************************************************************************)
(* SelfDebugLLM                                                            *)
(***************************************************************************)
FeedbackModes == {"simple", "ut", "ut+expl", "ut+trace"}

\* self.prompt_template: the repository's PromptTemplate, whose apply has a
\* required parameter object_type (template.py line 35) that line 141 does
\* not pass, or a template object of the caller whose apply renders.
Templates == {"PromptTemplate", "custom"}

\* Replies to the explanation and the trace query
ExtraReplies == {"explanation", "err_json", "err_html"}

\* A message content: a fixed text or a reply, or the unit test feedback
\* with one line per failure and the input to trace (0: none)
Plain(t) == [text |-> t, lines |-> <<>>, trace |-> 0]
Message(role, content) == [role |-> role, content |-> content]

\* SelfDebugLLM._unit_test, lines 75-107
sd_unit_test(fn, n) == [i \in 1..n |-> UnitTestResult(fn, i)]

\* a line with the expected and the actual output exchanged
FeedbackLineSwapped(f) == [x |-> f.x, y |-> f.yhat, yhat |-> f.y, error |-> f.error]

\* _get_unit_test_feedback, lines 109-126: one line per failure, in order;
\* with_trace names the input of `failure`, the loop variable after the loop
FeedbackLine(f) == [x |-> f.x, y |-> f.y, yhat |-> f.yhat, error |-> f.error]
get_unit_test_feedback(fl, with_trace) ==
    [text |-> IF with_trace THEN "fails_trace" ELSE "fails_please_fix",
     lines |-> [i \in 1..Len(fl) |-> FeedbackLine(fl[i])],
     trace |-> IF with_trace THEN fl[Len(fl)].x ELSE 0]

\* The call ends with res
SDEnd(res) ==
    /\ sd_result' = res
    /\ sd_pc' = "done"

\* an inner loop that runs one turn more than max_turns
SDContinueOneMore ==
    /\ turn' = turn + 1
    /\ sd_pc' = IF turn + 1 <= max_turns THEN "turn" ELSE "retry"

\* the inner loop body is left by continue or by its end: the next turn,
\* or after the last turn the head of the outer loop
SDContinue ==
    /\ turn' = turn + 1
    /\ sd_pc' = IF turn + 1 < max_turns THEN "turn" ELSE "retry"

\* lines 137-143: the system message and the rendered prompt
InitialMessages == << Message("system", Plain("expert_assistant")),
                      Message("user", Plain("rendered_prompt")) >>

\* a call that returns at once when use_cached holds and the cache has an
\* entry for the prompt
SDBodyEntryCached(u, hit) == IF u /\ hit THEN "done" ELSE "retry"

\* lines 137-145: after the messages are built the outer loop is entered;
\* neither use_cached nor the cache file is consulted
SDBodyEntry(u, hit) == "retry"

\* lines 128-143: the call starts with prompt in P and use_cached in U;
\* messages holds the system message and the rendered prompt
SDStart(P, U, R, T, K) ==
    /\ sd_prev' = IF sd_pc = "done"
                  THEN [prompt |-> sd_prompt, queries |-> sd_nQueries]
                  ELSE NoCall
    /\ \E m \in FeedbackModes, tpl \in Templates, k \in R, t \in T, n \in K :
          /\ feedback_mode' = m
          /\ prompt_template' = tpl
          /\ sd_n_retries' = k
          /\ max_turns' = t
          /\ sd_unit_tests' = n
          /\ IF tpl = "PromptTemplate"
             THEN /\ messages' = <<>>
                  /\ sd_result' = Raised("TypeError", 141)
             ELSE /\ messages' = InitialMessages
                  /\ sd_result' = NoResult
    /\ sd_cur_try' = 0
    /\ turn' = 0
    /\ success_feedback' = FALSE
    /\ success_turn_function' = None
    /\ success_turn_model_response' = None
    /\ sd_model_response' = None
    /\ sd_function' = None
    /\ failures' = <<>>
    /\ sd_nQueries' = 0
    /\ sd_turns' = <<>>
    /\ \E p \in P, u \in U :
          /\ sd_prompt' = p
          /\ sd_use_cached' = u
          /\ sd_pc' = IF prompt_template' = "PromptTemplate" THEN "done"
                      ELSE SDBodyEntry(u, Loads(cache_file) /\ cache_file.map[p] # Absent)
    /\ sd_seed' = NoSeed
    /\ UNCHANGED sd_default_sampling_params
    /\ UNCHANGED <<clVars, utVars, pfVars>>

\* one call with the default use_cached (line 133)
sd_def_function(R, T, K) ==
    /\ sd_pc = "idle"
    /\ SDStart({"p1"}, {TRUE}, R, T, K)

\* a call, the first one or one made after the previous call ended
sd_def_function_again(P, U, R, T, K) ==
    /\ sd_pc \in {"idle", "done"}
    /\ SDStart(P, U, R, T, K)

\* lines 145-152: the head of the outer loop: the seed drawn is written
\* into the object sampling_params refers to, the default object; after the
\* last iteration the function body ends without a return statement
SDOuter(SS) ==
    /\ sd_pc = "retry"
    /\ IF sd_cur_try < sd_n_retries
       THEN /\ sd_cur_try' = sd_cur_try + 1
            /\ \E seed \in SS :
                  /\ sd_seed' = seed
                  /\ sd_default_sampling_params' = seed
            /\ success_feedback' = FALSE
            /\ success_turn_function' = None
            /\ turn' = 0
            /\ sd_pc' = IF max_turns > 0 THEN "turn" ELSE "retry"
            /\ UNCHANGED sd_result
       ELSE /\ SDEnd(Raised("NoneReturned", 292))
            /\ UNCHANGED <<sd_cur_try, success_feedback, success_turn_function, turn,
                           sd_seed, sd_default_sampling_params>>
    /\ UNCHANGED <<feedback_mode, prompt_template, sd_n_retries, max_turns,
                   sd_unit_tests, messages, success_turn_model_response,
                   sd_model_response, sd_function, failures, sd_nQueries, sd_turns>>
    /\ UNCHANGED sdCallVars
    /\ UNCHANGED <<clVars, utVars, pfVars>>

\* lines 232-237: the confirmation question
ConfirmQuestion == Message("user", Plain("is_the_code_correct"))

\* a turn that sets success_feedback whatever the harness reported
NoFailuresUnchecked(fl) == TRUE

\* line 230, `if not failures`: every supplied case passed
NoFailures(fl) == fl = <<>>

\* the reply overwrites the last message of the conversation sent
ReplyReplacesLast(m, r) == [m EXCEPT ![Len(m)] = Message("assistant", Plain(r))]

\* lines 158-163 and 168-170: the reply is appended as an assistant message
AppendReply(m, r) == Append(m, Message("assistant", Plain(r)))

\* lines 153-238: one turn with reply r: the query, the extraction, the
\* confirmation's test and return, the test of the candidate
SDTurn(RS) ==
    /\ sd_pc = "turn"
    /\ \E r \in RS :
        LET sf == success_feedback
            transport == r \in TransportErrors
            \* lines 153-180
            mr1 == IF ~transport /\ ~sf THEN r ELSE sd_model_response
            stmr1 == IF ~transport /\ sf THEN r ELSE success_turn_model_response
            msgs1 == IF transport THEN messages
                     ELSE AppendReply(messages, r)
            brk1 == transport /\ ~sf
            \* lines 182-201: the text parsed is model_response in both branches
            pr == parse_function(mr1)
            brk2 == pr.raises # None /\ ~sf
            stf1 == IF sf /\ pr.raises = None THEN pr.fn ELSE success_turn_function
            fn1 == IF ~sf /\ pr.raises = None THEN pr.fn ELSE sd_function
            \* lines 203-224
            confirm == sf /\ stf1 # None
            confirm_failed == \E i \in 1..sd_unit_tests :
                                  failed(sd_unit_test(stf1, sd_unit_tests)[i])
            \* lines 226-238
            fl == SelectSeq(sd_unit_test(fn1, sd_unit_tests), failed)
        IN  /\ sd_nQueries' = sd_nQueries + 1
            /\ sd_turns' = Append(sd_turns, [try |-> sd_cur_try, confirm |-> sf, reply |-> r,
                     seed |-> sd_default_sampling_params,
                     extra |-> None, extra_seed |-> NoSeed])
            /\ CASE r = "err_html" ->
                      /\ SDEnd(Raised("JSONDecodeError", 175))
                      /\ UNCHANGED <<messages, sd_model_response, sd_function, turn,
                                     success_turn_model_response, success_turn_function,
                                     success_feedback, failures>>
                 [] r # "err_html" /\ (brk1 \/ brk2) ->
                      /\ messages' = msgs1
                      /\ sd_model_response' = mr1
                      /\ sd_pc' = "retry"
                      /\ UNCHANGED <<sd_function, turn, sd_result,
                                     success_turn_model_response, success_turn_function,
                                     success_feedback, failures>>
                 [] r # "err_html" /\ ~(brk1 \/ brk2) /\ confirm ->
                      /\ messages' = msgs1
                      /\ success_turn_model_response' = stmr1
                      /\ success_turn_function' = stf1
                      /\ SDEnd(IF confirm_failed
                               THEN Returned(sd_function, sd_model_response, 210)
                               ELSE IF stmr1 = None
                                    THEN Raised("UnboundLocalError", 220)
                                    ELSE Returned(stf1, stmr1, 218))
                      /\ UNCHANGED <<sd_model_response, sd_function, turn,
                                     success_feedback, failures>>
                 [] OTHER ->
                      /\ sd_model_response' = mr1
                      /\ success_turn_model_response' = stmr1
                      /\ success_turn_function' = stf1
                      /\ sd_function' = fn1
                      /\ IF NoFailures(fl)
                         THEN /\ success_feedback' = TRUE
                              /\ messages' = Append(msgs1, ConfirmQuestion)
                              /\ SDContinue
                              /\ UNCHANGED failures
                         ELSE /\ messages' = msgs1
                              /\ failures' = fl
                              /\ sd_pc' = "feedback"
                              /\ UNCHANGED <<success_feedback, turn>>
                      /\ UNCHANGED sd_result
    /\ UNCHANGED <<feedback_mode, prompt_template, sd_n_retries, max_turns,
                   sd_unit_tests, sd_cur_try, sd_seed, sd_default_sampling_params>>
    /\ UNCHANGED sdCallVars
    /\ UNCHANGED <<clVars, utVars, pfVars>>

\* the listing comes before the explanation it follows in the source
ExplainedListingFirst(m, x, fb) ==
    m \o << Message("user", fb), Message("assistant", Plain(x)) >>

\* lines 269-273 and 289-292: the reply x to the explanation or trace query,
\* then the user message fb
Explained(m, x, fb) ==
    m \o << Message("assistant", Plain(x)), Message("user", fb) >>

\* lines 240-292: the feedback after a failing turn, by feedback mode; x is
\* the reply to the explanation or trace query of the modes that ask one,
\* kept with the turn in sd_turns
SDFeedback ==
    /\ sd_pc = "feedback"
    /\ \E x \in IF feedback_mode \in {"ut+expl", "ut+trace"}
               THEN ExtraReplies ELSE {"explanation"} :
        LET asks == feedback_mode \in {"ut+expl", "ut+trace"}
            first == CASE feedback_mode = "simple" -> Plain("wrong_please_fix")
                       [] feedback_mode = "ut" -> get_unit_test_feedback(failures, FALSE)
                       [] feedback_mode = "ut+expl" -> Plain("explain_line_by_line")
                       [] OTHER -> get_unit_test_feedback(failures, TRUE)
            last == IF feedback_mode = "ut+expl"
                    THEN get_unit_test_feedback(failures, FALSE)
                    ELSE Plain("please_fix")
            msgs1 == Append(messages, Message("user", first))
        IN  /\ sd_nQueries' = IF asks THEN sd_nQueries + 1 ELSE sd_nQueries
            /\ sd_turns' = [sd_turns EXCEPT
                   ![Len(sd_turns)].extra = IF asks THEN x ELSE None,
                   ![Len(sd_turns)].extra_seed =
                       IF asks THEN sd_default_sampling_params ELSE NoSeed]
            /\ CASE asks /\ x = "err_html" ->
                      /\ SDEnd(Raised("JSONDecodeError",
                                      IF feedback_mode = "ut+expl" THEN 264 ELSE 284))
                      /\ messages' = msgs1
                      /\ UNCHANGED turn
                 [] asks /\ x = "err_json" ->
                      /\ messages' = msgs1
                      /\ sd_pc' = "retry"
                      /\ UNCHANGED <<turn, sd_result>>
                 [] asks /\ x \notin TransportErrors ->
                      /\ messages' = Explained(msgs1, x, last)
                      /\ SDContinue
                      /\ UNCHANGED sd_result
                 [] OTHER ->
                      /\ messages' = msgs1
                      /\ SDContinue
                      /\ UNCHANGED sd_result
    /\ failures' = <<>>
    /\ UNCHANGED <<feedback_mode, prompt_template, sd_n_retries, max_turns,
                   sd_unit_tests, sd_cur_try, success_feedback, success_turn_function,
                   success_turn_model_response, sd_model_response, sd_function,
                   sd_seed, sd_default_sampling_params>>
    /\ UNCHANGED sdCallVars
    /\ UNCHANGED <<clVars, utVars, pfVars>>

\* lines 146-147 of another call of def_function that runs at the same time
\* on a worker thread (evaluate.py lines 49-53) and passes no
\* sampling_params either: the head of its outer loop writes the seed it
\* drew into the same default object
SDOtherCall(SS) ==
    /\ sd_pc \in {"turn", "feedback"}
    /\ \E seed \in SS :
          /\ seed # sd_default_sampling_params
          /\ sd_default_sampling_params' = seed
    /\ UNCHANGED <<sd_pc, feedback_mode, prompt_template, sd_n_retries, max_turns,
                   sd_unit_tests, sd_cur_try, turn, messages, success_feedback,
                   success_turn_function, success_turn_model_response,
                   sd_model_response, sd_function, failures, sd_result, sd_seed,
                   sd_nQueries, sd_turns>>
    /\ UNCHANGED sdCallVars
    /\ UNCHANGED <<clVars, utVars, pfVars>>

(***************************************************************************)
(* CodeGenerator.unit_test, one case at a time                             *)
(***************************************************************************)
\* What running the candidate on a case does: it returns the expected
\* output (ok) or another one (wrong), it raises an exception (raise), or it
\* runs over timeout_s and the timeout wrapper of line 70 raises TimeoutError.
Outcomes == {"ok", "wrong", "raise", "timeout"}

\* A case of unit_tests: a pair (x, y) of an input and its expected output
\* (line 101), or a callable that is given the candidate and raises unless
\* it is content (lines 79-81).
PairCase(a) == [kind |-> "pair", x |-> a, y |-> Expected(a)]
CallableCase == [kind |-> "callable", x |-> NoOutput, y |-> NoOutput]
TestCases == {PairCase(a) : a \in 1..MaxCases} \cup {CallableCase}

\* every list of at most n cases
RECURSIVE TestLists(_)
TestLists(n) ==
    IF n = 0 THEN {<<>>}
    ELSE TestLists(n - 1) \cup
         {Append(l, t) : l \in {m \in TestLists(n - 1) : Len(m) = n - 1},
                         t \in TestCases}

\* the exception a case's try block ends with, or None: function(x) of a
\* pair (lines 103-106) raises when the candidate raises or times out;
\* test(function) of a callable case (line 81) raises also when the
\* candidate's output is not the one it asserts
CaseError(test, out) ==
    CASE out = "raise"                          -> "Exception"
      [] out = "timeout"                        -> "TimeoutError"
      [] out = "wrong" /\ test.kind = "callable" -> "AssertionError"
      [] OTHER                                  -> None

\* the handlers that catch only the candidate's own exception
CaughtNoTimeout(err) == err \in {"Exception", "AssertionError"}

\* lines 93 and 112: except Exception catches every exception of a case
Caught(err) == err \in {"Exception", "AssertionError", "TimeoutError"}

\* a result that does not record the index of its case
CaseResultNoId(i, test, out) ==
    [id |-> 0, x |-> test.x, y |-> test.y, yhat |-> NoOutput, error |-> TRUE]

\* the UnitTestResult appended for the case at 0-based index i (lines 82-98
\* for a callable case, 107-117 for a pair); error is TRUE when an exception
\* was captured
CaseResult(i, test, out) ==
    IF test.kind = "callable"
    THEN [id |-> i, x |-> NoOutput, y |-> NoOutput, yhat |-> NoOutput,
          error |-> CaseError(test, out) # None]
    ELSE IF CaseError(test, out) # None
    THEN [id |-> i, x |-> test.x, y |-> test.y, yhat |-> NoOutput, error |-> TRUE]
    ELSE [id |-> i, x |-> test.x, y |-> test.y,
          yhat |-> IF out = "ok" THEN test.y ELSE test.y + 1, error |-> FALSE]

\* baseline.py 189-193: the line of error_message for a failed result:
\* "x -> y, got error <error>" when an error was captured, else
\* "x -> y, got <yhat> instead."
LogLine(r) == [x |-> r.x, y |-> r.y, error |-> r.error, yhat |-> r.yhat]

\* lines 49-77: unit_test is called with a candidate and a list of cases
UTCall(L) ==
    /\ ut_pc \in {"idle", "raised", "logged"}
    /\ ut_function' \in [1..MaxCases -> Outcomes]
    /\ ut_tests' \in L
    /\ results' = <<>>
    /\ error_message' = NoMessage
    /\ ut_pc' = "loop"
    /\ UNCHANGED <<clVars, sdVars, pfVars>>

\* lines 78-117: one iteration of for i, test in enumerate(unit_tests)
UTCase ==
    /\ ut_pc = "loop"
    /\ Len(results) < Len(ut_tests)
    /\ LET i    == Len(results)
           test == ut_tests[i + 1]
           out  == ut_function[i + 1]
           err  == CaseError(test, out)
       IN  IF err # None /\ ~Caught(err)
           THEN /\ ut_pc' = "raised"
                /\ UNCHANGED results
           ELSE /\ results' = Append(results, CaseResult(i, test, out))
                /\ UNCHANGED ut_pc
    /\ UNCHANGED <<ut_function, ut_tests, error_message>>
    /\ UNCHANGED <<clVars, sdVars, pfVars>>

\* line 119: return results
UTReturn ==
    /\ ut_pc = "loop"
    /\ Len(results) = Len(ut_tests)
    /\ ut_pc' = "done"
    /\ UNCHANGED <<ut_function, ut_tests, results, error_message>>
    /\ UNCHANGED <<clVars, sdVars, pfVars>>

\* the caller's message that names only the first failure
ErrorMessageFirstOnly(res) ==
    [count |-> Len(SelectSeq(res, failed)), total |-> Len(res),
     lines |-> IF SelectSeq(res, failed) = <<>> THEN <<>>
               ELSE << LogLine(SelectSeq(res, failed)[1]) >>]

\* baseline.py 183-193: error_message built from unit_test_results:
\* "<failures>/<results> test failed." and one line per failure
ErrorMessage(res) ==
    LET fl == SelectSeq(res, failed)
    IN  [count |-> Len(fl), total |-> Len(res),
         lines |-> [k \in 1..Len(fl) |-> LogLine(fl[k])]]

\* baseline.py 180-199: the caller of unit_test logs a warning with
\* error_message when a result has failed, and none when no result has
UTLog ==
    /\ ut_pc = "done"
    /\ ut_pc' = "logged"
    /\ error_message' = IF SelectSeq(results, failed) = <<>>
                        THEN NoMessage ELSE ErrorMessage(results)
    /\ UNCHANGED <<ut_function, ut_tests, results>>
    /\ UNCHANGED <<clVars, sdVars, pfVars>>

(***************************************************************************)
(* RegExParser.parse_function, step by step on the shared namespace        *)
(***************************************************************************)
\* lines 42-71: parse_function is called; the patterns are matched.  With no
\* def block the loop of line 73 has nothing to do and line 90 returns None.
PFCall(t, TS) ==
    /\ pf_pc[t] \in {"idle", "done"}
    /\ \E txt \in TS :
          /\ input_string' = [input_string EXCEPT ![t] = txt]
          /\ pf_pc' = [pf_pc EXCEPT ![t] = IF HasBlock(txt) THEN "exec" ELSE "done"]
          /\ pf_result' = [pf_result EXCEPT ![t] =
                              IF HasBlock(txt) THEN NoParse
                              ELSE [kind |-> "None", fn |-> None]]
    /\ resized' = [resized EXCEPT ![t] = FALSE]
    /\ UNCHANGED <<namespace, ns_order>>
    /\ UNCHANGED <<clVars, sdVars, utVars>>

\* lines 73-84: the block is compiled and exec(code, namespace) binds its
\* name in globals(); a name that is new makes the dict grow, which a thread
\* that is iterating over namespace.items() may notice
PFExec(t) ==
    /\ pf_pc[t] = "exec"
    /\ namespace' = [namespace EXCEPT ![NameOf(input_string[t])] = input_string[t]]
    /\ ns_order' = IF namespace[NameOf(input_string[t])] = None
                   THEN Append(ns_order, NameOf(input_string[t])) ELSE ns_order
    /\ resized' = [u \in Callers |->
                     IF /\ u # t
                        /\ pf_pc[u] = "lookup"
                        /\ namespace[NameOf(input_string[t])] = None
                     THEN TRUE ELSE resized[u]]
    /\ pf_pc' = [pf_pc EXCEPT ![t] = "lookup"]
    /\ UNCHANGED <<input_string, pf_result>>
    /\ UNCHANGED <<clVars, sdVars, utVars>>

\* lines 86-88: the value returned is what the first name of
\* namespace.items() that is in function_names is bound to when the loop
\* reaches it; the loop of line 73 is left there, at the first block
ReturnedValue(t) ==
    LET found == SelectSeq(ns_order, LAMBDA n : n \in FunctionNames(input_string[t]))
    IN  namespace[found[1]]

\* lines 86-88: for name, value in namespace.items(): return the value of
\* the block's name.  When the dict grew during the loop, the loop either
\* had reached the name before or raises RuntimeError (dictionary changed
\* size during iteration).
PFLookup(t) ==
    /\ pf_pc[t] = "lookup"
    /\ \/ pf_result' = [pf_result EXCEPT ![t] =
                            [kind |-> "callable", fn |-> ReturnedValue(t)]]
       \/ /\ resized[t]
          /\ pf_result' = [pf_result EXCEPT ![t] =
                              [kind |-> "RuntimeError", fn |-> None]]
    /\ pf_pc' = [pf_pc EXCEPT ![t] = "done"]
    /\ UNCHANGED <<namespace, ns_order, input_string, resized>>
    /\ UNCHANGED <<clVars, sdVars, utVars>>

(***************************************************************************)
(* Specifications                                                          *)
(***************************************************************************)
\* One caller, one call after another, every argument and reply.
Next ==
    \E c \in {"c1"} :
        \/ def_function(c, Prompts, 0..MaxRetries, 0..MaxCases, BOOLEAN)
        \/ Acquire(c)
        \/ Validate(c)
        \/ Open(c)
        \/ LookupBody(c)
        \/ Attempt(c, Replies, {1})
        \/ LoopExhausted(c)
        \/ StoreReadBody(c)
        \/ StoreWriteBody(c)

Spec == Init /\ [][Next]_vars

\* Two callers at once, as the worker threads of evaluate.py or two
\* processes: each with its own prompt, one attempt per call, no unit tests.
PromptOf(c) == IF c = "c1" THEN "p1" ELSE "p2"
ConcReplies == {"pass_a", "pass_b", "err_json"}

NextConc ==
    \E c \in Callers :
        \/ def_function(c, {PromptOf(c)}, {1}, {0}, BOOLEAN)
        \/ Acquire(c)
        \/ Validate(c)
        \/ Open(c)
        \/ LookupBody(c)
        \/ Attempt(c, ConcReplies, {1})
        \/ LoopExhausted(c)
        \/ StoreReadBody(c)
        \/ StoreWriteBody(c)

SpecConc == Init /\ [][NextConc]_vars

\* The two callers under fair scheduling of the lock: a caller that finds
\* the lock free again and again gets it, and the holder, which does local
\* file work only, goes on to its release.  Nothing makes a model query
\* return.
LockReplies == {"pass_a", "err_json"}

NextConcFair ==
    \E c \in Callers :
        \/ def_function(c, {PromptOf(c)}, {1}, {0}, BOOLEAN)
        \/ Acquire(c)
        \/ Validate(c)
        \/ Open(c)
        \/ LookupBody(c)
        \/ Attempt(c, LockReplies, {1})
        \/ LoopExhausted(c)
        \/ StoreReadBody(c)
        \/ StoreWriteBody(c)

SpecConcFair ==
    /\ Init
    /\ [][NextConcFair]_vars
    /\ \A c \in Callers : SF_vars(Acquire(c)) /\ WF_vars(Validate(c))

\* One caller, one call after another with the default sampling
\* parameters, every seed: a call can hit the entry of an earlier call.
NextSeqSeed ==
    \E c \in {"c1"} :
        \/ def_function(c, Prompts, {0, 1}, {0, 1}, BOOLEAN)
        \/ Acquire(c)
        \/ Validate(c)
        \/ Open(c)
        \/ LookupBody(c)
        \/ Attempt(c, {"pass_a", "pass_b", "fail_wrong"}, Seeds)
        \/ LoopExhausted(c)
        \/ StoreReadBody(c)
        \/ StoreWriteBody(c)

SpecSeqSeed == Init /\ [][NextSeqSeed]_vars

\* Two callers at once with the default sampling parameters, every seed.
SeedReplies == {"pass_a"}

NextSeed ==
    \E c \in Callers :
        \/ def_function(c, {PromptOf(c)}, {0, 1}, {1}, BOOLEAN)
        \/ Acquire(c)
        \/ Validate(c)
        \/ Open(c)
        \/ LookupBody(c)
        \/ Attempt(c, SeedReplies, Seeds)
        \/ LoopExhausted(c)
        \/ StoreReadBody(c)
        \/ StoreWriteBody(c)

SpecSeed == Init /\ [][NextSeed]_vars

\* One caller of SelfDebugLLM.def_function, every feedback mode and reply.
NextSD ==
    \/ sd_def_function(0..MaxRetries, 1..DefaultMaxTurns, 0..MaxCases)
    \/ SDOuter({1})
    \/ SDTurn(Replies)
    \/ SDFeedback

SpecSD == Init /\ [][NextSD]_vars

\* One call when every model query and every test run returns: the step
\* the call is at is taken.  One reply of each kind.
FairReplies == {"pass_a", "fail_wrong", "syntax", "err_json", "err_html"}

NextSDFair ==
    \/ sd_def_function(0..MaxRetries, 1..DefaultMaxTurns, 0..MaxCases)
    \/ SDOuter({1})
    \/ SDTurn(FairReplies)
    \/ SDFeedback

SpecSDFair == Init /\ [][NextSDFair]_vars /\ WF_vars(NextSDFair)

\* The calls that draw seeds, every seed: calls of CodeLLM.def_function by
\* one caller, or a call of SelfDebugLLM.def_function with the default
\* sampling parameters while another such call runs on a worker thread.
SDSeedReplies == {"pass_a", "fail_wrong", "err_json"}

NextSDSeed ==
    \/ /\ phase["c1"] = "idle"
       /\ result["c1"].kind = "none"
       /\ sd_def_function({1, 2}, 1..DefaultMaxTurns, {1})
    \/ SDOuter(Seeds)
    \/ SDTurn(SDSeedReplies)
    \/ SDFeedback
    \/ SDOtherCall(Seeds)
    \/ \E c \in {"c1"} :
          \/ /\ sd_pc = "idle"
             /\ def_function(c, {"p1"}, {1, 2}, {1}, BOOLEAN)
          \/ Acquire(c)
          \/ Validate(c)
          \/ Open(c)
          \/ LookupBody(c)
          \/ Attempt(c, SDSeedReplies, Seeds)
          \/ LoopExhausted(c)
          \/ StoreReadBody(c)
          \/ StoreWriteBody(c)

SpecSDSeed == Init /\ [][NextSDSeed]_vars

\* One call of the harness after another, every candidate and list of cases.
NextUT ==
    \/ UTCall(TestLists(MaxCases))
    \/ UTCase
    \/ UTReturn
    \/ UTLog

SpecUT == Init /\ [][NextUT]_vars

\* Two threads extracting at once, as the worker threads of evaluate.py
\* with one parser; every text.
NextPF ==
    \E t \in Callers :
        \/ PFCall(t, ParserTexts)
        \/ PFExec(t)
        \/ PFLookup(t)

SpecPF == Init /\ [][NextPF]_vars

\* One thread, one extraction after another; every text.
NextPFSeq ==
    \E t \in {"c1"} :
        \/ PFCall(t, ParserTexts)
        \/ PFExec(t)
        \/ PFLookup(t)

SpecPFSeq == Init /\ [][NextPFSeq]_vars

\* One thread, one extraction after another; also the texts with a nested
\* def and with two blocks.
NextPFOrder ==
    \E t \in {"c1"} :
        \/ PFCall(t, OrderTexts)
        \/ PFExec(t)
        \/ PFLookup(t)

SpecPFOrder == Init /\ [][NextPFOrder]_vars

(***************************************************************************)
(* Claims about CodeLLM.def_function                                       *)
(***************************************************************************)
\* the call of c has ended (returned or raised)
Ended(c) == phase[c] = "idle" /\ result[c].kind # "none"

\* reply r gave a candidate function that fails one of the n supplied cases
CandidateFails(r, n) ==
    /\ r \in Texts
    /\ Blocks(r) # <<>>
    /\ Blocks(r)[1].ok
    /\ \E i \in 1..n : Run(Blocks(r)[1].fn, i) # "ok"

\* reply r gave a candidate function that passes all of the n supplied cases
CandidatePasses(r, n) ==
    /\ r \in Texts
    /\ Blocks(r) # <<>>
    /\ Blocks(r)[1].ok
    /\ \A i \in 1..n : Run(Blocks(r)[1].fn, i) = "ok"

AllAttemptsFail(c) ==
    \A i \in 1..Len(attempts[c]) : CandidateFails(attempts[c][i], unit_tests[c])

\* the lookup of c's call found no entry (it did not hit and did not raise)
CacheMissed(c) == ~cache_hit[c] /\ result[c].line # 130

\* C1: retry exhaustion.  On a cache miss, while every attempt's candidate
\* fails a supplied unit test case, a call with n_retries = k never issues
\* more than k queries and never goes on to store or return a Function; it
\* ends only by raising TooManyRetries, after exactly k queries.
C1_RetryExhaustion ==
    \A c \in Callers :
        (CacheMissed(c) /\ AllAttemptsFail(c)) =>
            /\ nQueries[c] <= n_retries[c]
            /\ phase[c] \in {"idle", "lookup", "loop"}
            /\ (Ended(c) => /\ result[c].kind = "TooManyRetries"
                            /\ nQueries[c] = n_retries[c])

C1_Witness ==
    /\ Ended("c1")
    /\ n_retries["c1"] = MaxRetries
    /\ Len(attempts["c1"]) = MaxRetries
    /\ AllAttemptsFail("c1")
    /\ result["c1"].kind = "TooManyRetries"

\* C2: def_function has two outcomes: a Function whose callable exists and
\* passed every supplied unit test case in this call, or TooManyRetries.
C2_TwoOutcomes ==
    \A c \in Callers :
        /\ result[c].kind \in {"none", "Function", "TooManyRetries"}
        /\ result[c].kind = "Function" =>
              /\ result[c].function # None
              /\ unit_tests[c] > 0 =>
                    /\ ~cache_hit[c]
                    /\ \A i \in 1..unit_tests[c] : Run(result[c].function, i) = "ok"

\* C9: acceptance at the first passing attempt.  An attempt whose query
\* succeeds and whose candidate function has no failed case (or no cases
\* were supplied) is the last attempt of its call: no query follows it, the
\* call goes on to the store, and the Function returned has that attempt's
\* reply as source and the callable extracted from that reply.
C9_FirstPassingAttempt ==
    \A c \in Callers :
        \A i \in 1..Len(attempts[c]) :
            CandidatePasses(attempts[c][i], unit_tests[c]) =>
                /\ i = Len(attempts[c])
                /\ nQueries[c] = i
                /\ phase[c] \in {"store_read", "store_write", "idle"}
                /\ phase[c] # "idle" => /\ model_response[c] = attempts[c][i]
                                        /\ function[c] = Blocks(attempts[c][i])[1].fn
                /\ result[c].kind = "Function" =>
                      /\ result[c].source = attempts[c][i]
                      /\ result[c].function = Blocks(attempts[c][i])[1].fn

C9_Witness ==
    /\ Ended("c1")
    /\ result["c1"].kind = "Function"
    /\ unit_tests["c1"] > 0
    /\ Len(attempts["c1"]) >= 1
    /\ Len(attempts["c1"]) < n_retries["c1"]
    /\ nQueries["c1"] = Len(attempts["c1"])
    /\ CandidatePasses(attempts["c1"][Len(attempts["c1"])], unit_tests["c1"])

\* C10: extraction failure is retried, never accepted.  An attempt whose
\* reply has a syntax error or holds no function is followed by the next
\* attempt or by TooManyRetries; the call never goes on to store or return it.
ExtractionFails(r) ==
    r \in Texts /\ (Blocks(r) = <<>> \/ ~Blocks(r)[1].ok)

C10_ExtractionFailureRetried ==
    \A c \in Callers :
        \A i \in 1..Len(attempts[c]) :
            ExtractionFails(attempts[c][i]) =>
                \/ i < Len(attempts[c])
                \/ phase[c] = "loop"
                \/ Ended(c) /\ result[c].kind = "TooManyRetries"

(***************************************************************************)
(* Claims about the cache under concurrent callers                         *)
(***************************************************************************)
\* C5: exact-key isolation.  Once the calls of two callers for distinct
\* prompts have both returned a Function, the cache holds for each prompt
\* the entry of its call.
C5_ExactKeyIsolation ==
    ( /\ \A c \in Callers : Ended(c) /\ result[c].kind = "Function"
      /\ prompt["c1"] # prompt["c2"] )
    => /\ Loads(cache_file)
       /\ \A c \in Callers :
             cache_file.map[prompt[c]].model_response = result[c].source

\* C6: cache transactions are mutually exclusive.  A caller that has the
\* cache file open holds the lock, and no two callers have it open together.
C6_MutualExclusion ==
    /\ \A c \in Callers : file_open[c] # "closed" => lock = c
    /\ \A c, d \in Callers :
          (file_open[c] # "closed" /\ file_open[d] # "closed") => c = d

\* C7: a corrupt cache never crashes the caller.  Neither json.load of
\* def_function (line 130, line 209) raises.
C7_CorruptCacheNeverCrashes ==
    \A c \in Callers :
        ~(result[c].kind = "JSONDecodeError" /\ result[c].line \in {130, 209})

\* C8: cache idempotence.  A call with use_cached = True for a prompt for
\* which an earlier call has returned a Function issues no model query and
\* returns a Function whose source is the text that call stored.
C8_CacheIdempotence ==
    \A c \in Callers :
        (use_cached[c] /\ stored[prompt[c]] # None) =>
            /\ nQueries[c] = 0
            /\ Ended(c) => /\ result[c].kind = "Function"
                           /\ result[c].source = stored[prompt[c]]

(***************************************************************************)
(* Claims about SelfDebugLLM.def_function                                  *)
(***************************************************************************)
\* C3: self-debug non-regression.  When the call returns after a turn T
\* whose candidate passed every case and a confirmation turn whose reply
\* holds a candidate that fails a case, the Function returned has turn T's
\* callable and turn T's reply as source.
C3_NonRegression ==
    LET n == Len(sd_turns) IN
    ( /\ sd_result.kind = "Function"
      /\ n >= 2
      /\ sd_turns[n].confirm
      /\ ~sd_turns[n - 1].confirm
      /\ CandidatePasses(sd_turns[n - 1].reply, sd_unit_tests)
      /\ CandidateFails(sd_turns[n].reply, sd_unit_tests) )
    => /\ sd_result.function = Blocks(sd_turns[n - 1].reply)[1].fn
       /\ sd_result.source = sd_turns[n - 1].reply

\* C4: self-debug exhaustion is explicit.  A call that has used up its
\* n_retries outer retries without a candidate and without another error
\* ends in TooManyRetries, not by returning a value.
C4_ExhaustionExplicit ==
    ( /\ sd_pc = "done"
      /\ sd_cur_try = sd_n_retries
      /\ sd_result.kind \notin {"Function", "TypeError", "JSONDecodeError",
                                "UnboundLocalError"} )
    => sd_result.kind = "TooManyRetries"

\* C11: transport failure is retried, never fatal.  An attempt whose query
\* ends in RequestException is followed by the next attempt or, when it was
\* the last, by TooManyRetries: no other error leaves the call because of it.
C11_TransportFailureRetried ==
    \A c \in Callers :
        \A i \in 1..Len(attempts[c]) :
            attempts[c][i] \in TransportErrors =>
                \/ i < Len(attempts[c])
                \/ phase[c] = "loop"
                \/ Ended(c) /\ result[c].kind = "TooManyRetries"

(***************************************************************************)
(* Claims about CodeGenerator.unit_test                                    *)
(***************************************************************************)
\* C12: harness ordering.  The results recorded so far are one per case, in
\* the order of the cases: the i-th has id i (from 0) and, for a pair, the
\* input and expected output of the i-th case; when unit_test returns there
\* are exactly as many results as cases.
C12_HarnessOrdering ==
    /\ Len(results) <= Len(ut_tests)
    /\ ut_pc \in {"done", "logged"} => Len(results) = Len(ut_tests)
    /\ \A i \in 1..Len(results) :
          /\ results[i].id = i - 1
          /\ results[i].x = ut_tests[i].x
          /\ results[i].y = ut_tests[i].y

C12_Witness ==
    /\ ut_pc = "done"
    /\ Len(ut_tests) = MaxCases
    /\ ut_tests[1].kind = "pair"
    /\ ut_tests[1].x = MaxCases
    /\ ut_tests[MaxCases].x # MaxCases
    /\ results[1].error
    /\ ~results[MaxCases].error

\* C13: harness isolation.  unit_test never raises; a case whose execution
\* raised or timed out has a result with the error captured and no actual
\* output, and the cases after it have their results too.
C13_HarnessIsolation ==
    /\ ut_pc # "raised"
    /\ \A i \in 1..Len(results) :
          ut_function[i] \in {"raise", "timeout"} =>
              /\ failed(results[i])
              /\ results[i].error
              /\ results[i].yhat = NoOutput
    /\ ut_pc \in {"done", "logged"} => Len(results) = Len(ut_tests)

C13_Witness ==
    /\ ut_pc = "done"
    /\ Len(ut_tests) = MaxCases
    /\ ut_function[1] = "timeout"
    /\ results[1].error
    /\ ~failed(results[MaxCases])

\* C20: a confirmation that still passes returns the confirmation's
\* candidate.  When the call returns after a confirmation turn whose reply
\* holds a candidate that passes every case, the Function returned has the
\* callable extracted from that reply and that reply as source.
C20_ConfirmationCandidateReturned ==
    LET n == Len(sd_turns) IN
    ( /\ sd_result.kind = "Function"
      /\ n >= 2
      /\ sd_turns[n].confirm
      /\ CandidatePasses(sd_turns[n].reply, sd_unit_tests) )
    => /\ sd_result.function = Blocks(sd_turns[n].reply)[1].fn
       /\ sd_result.source = sd_turns[n].reply

\* a line of the warning reports the failed result r
Reports(l, r) ==
    /\ l.x = r.x
    /\ l.y = r.y
    /\ l.error = r.error
    /\ ~r.error => l.yhat = r.yhat

\* C19: failure log completeness.  The warning logged for a run of the
\* harness with a failed case has one line per failed case, each with the
\* case's input, expected output and actual output or captured error, and no
\* line for a case that passed; a run without a failed case logs no warning.
C19_FailureLogComplete ==
    ut_pc = "logged" =>
        LET failing == {i \in 1..Len(results) : failed(results[i])}
        IN  /\ failing = {} => error_message = NoMessage
            /\ failing # {} =>
                  /\ Len(error_message.lines) = Cardinality(failing)
                  /\ error_message.count = Cardinality(failing)
                  /\ \A i \in failing :
                        \E k \in 1..Len(error_message.lines) :
                            Reports(error_message.lines[k], results[i])
                  /\ \A k \in 1..Len(error_message.lines) :
                        \E i \in failing :
                            Reports(error_message.lines[k], results[i])

C19_Witness ==
    /\ ut_pc = "logged"
    /\ Len(results) = MaxCases
    /\ failed(results[1])
    /\ results[1].error
    /\ failed(results[MaxCases])
    /\ ~results[MaxCases].error
    /\ Len(error_message.lines) = 2

(***************************************************************************)
(* Claims about the cache entry and the sampling parameters                *)
(***************************************************************************)
\* the attempts of c's call on which the harness was run (line 180)
TestRuns(c) ==
    Cardinality({i \in 1..Len(attempts[c]) :
                    /\ unit_tests[c] > 0
                    /\ attempts[c][i] \in Texts
                    /\ parse_function(attempts[c][i]).raises = None})

\* C14: a cache hit is trusted without re-validation.  A call that found
\* its prompt in the cache issues no query and runs no unit test, whatever
\* unit tests it was given, and the Function it returns has the stored text
\* as source, the callable parsed from it and sampling parameters of its own
\* with the stored seed.
C14_CacheHitTrusted ==
    \A c \in Callers :
        cache_hit[c] =>
            /\ nQueries[c] = 0
            /\ TestRuns(c) = 0
            /\ phase[c] \in {"idle", "store_read", "store_write"}
            /\ result[c].kind = "Function" =>
                  /\ result[c].source = cache_entry[c].model_response
                  /\ result[c].function = parse_function(cache_entry[c].model_response).fn
                  /\ result[c].sampling_params.obj = "fresh"
                  /\ result[c].seed = cache_entry[c].sampling_params
                  /\ SeedOf(result[c].sampling_params) = cache_entry[c].sampling_params

C14_Witness ==
    /\ Ended("c1")
    /\ cache_hit["c1"]
    /\ unit_tests["c1"] > 0
    /\ result["c1"].kind = "Function"
    /\ result["c1"].seed # default_sampling_params
    /\ result["c1"].seed \in Seeds

\* the call of c returned a Function for an attempt accepted after a miss
AcceptedOnMiss(c) ==
    /\ Ended(c)
    /\ result[c].kind = "Function"
    /\ ~cache_hit[c]
    /\ attempts[c] # <<>>

\* C15: write-through on acceptance.  When a call whose attempt was
\* accepted on the cache-miss path returns, the cache maps its prompt to an
\* entry with the accepted reply, the seed that reply's query carried and
\* the parser's class name.
C15_WriteThrough ==
    \A c \in Callers :
        AcceptedOnMiss(c) =>
            result[c].cached = Entry(attempts[c][Len(attempts[c])], query_seed[c])

\* C16: concurrent calls share no state but the cache.  The seed recorded
\* in the cache entry a call builds, and the seed the Function it returns
\* shows at the return, are the seed its accepted query carried.
C16_SeedNotShared ==
    \A c \in Callers :
        /\ (phase[c] = "store_write" /\ ~cache_hit[c]) =>
              new_cache[c][prompt[c]].sampling_params = query_seed[c]
        /\ (result[c].kind = "Function" /\ ~cache_hit[c]) =>
              result[c].seed = query_seed[c]

\* C17: a returned Function is immutable.  The seed of the sampling
\* parameters of a Function that was returned stays the seed it had at the
\* return, whatever calls come later.
C17_FunctionImmutable ==
    \A c \in Callers :
        result[c].kind = "Function" =>
            SeedOf(result[c].sampling_params) = result[c].seed

(***************************************************************************)
(* Claims about RegExParser.parse_function                                 *)
(***************************************************************************)
\* C18: extractor correctness over sequences.  Whatever was extracted
\* before and whatever another thread extracts meanwhile, parse_function on
\* a text with one def block returns the callable that text defines, and on
\* a text without a def block returns no callable.
C18_ExtractorCorrect ==
    \A t \in Callers :
        pf_pc[t] = "done" =>
            IF HasBlock(input_string[t])
            THEN pf_result[t] = [kind |-> "callable", fn |-> input_string[t]]
            ELSE pf_result[t] = [kind |-> "None", fn |-> None]

(***************************************************************************)
(* Claims about SelfDebugLLM.def_function                                  *)
(***************************************************************************)
\* the call has ended (returned or raised)
SDEnded == sd_pc = "done"

\* turn i of the call was a candidate turn whose reply holds a candidate
\* that passes every supplied case
PassingTurn(i) ==
    /\ ~sd_turns[i].confirm
    /\ CandidatePasses(sd_turns[i].reply, sd_unit_tests)

\* no query of a turn of the call failed in transport
NoTransportFailure ==
    \A i \in 1..Len(sd_turns) : sd_turns[i].reply \in Texts

\* C21: a passing candidate is not lost.  When the call has ended, no query
\* has failed, and some turn yielded a candidate that passes every case,
\* the call has returned a candidate; this includes a passing turn that is
\* the last of max_turns, and max_turns = 1.
C21_PassingCandidateNotLost ==
    ( /\ SDEnded
      /\ NoTransportFailure
      /\ \E i \in 1..Len(sd_turns) : PassingTurn(i) )
    => sd_result.kind = "Function"

\* C22: the confirmation turn is the only success path.  Every Function the
\* call returns is returned by a confirmation turn that follows, in the
\* same outer retry, a candidate turn whose candidate passes every case;
\* the conversation holds that turn's reply, then the confirmation question
\* as a user message, then the confirmation reply if the query got one.  No
\* Function is returned by a candidate turn, passing or failing.
C22_ConfirmationOnlySuccessPath ==
    LET n == Len(sd_turns)
        k == Len(messages)
        got == sd_turns[n].reply \in Texts
        q == IF got THEN k - 1 ELSE k
    IN  sd_result.kind = "Function"
        => /\ n >= 2
           /\ sd_turns[n].confirm
           /\ sd_turns[n - 1].try = sd_turns[n].try
           /\ PassingTurn(n - 1)
           /\ q >= 2
           /\ messages[q] = ConfirmQuestion
           /\ messages[q - 1] = Message("assistant", Plain(sd_turns[n - 1].reply))
           /\ got => messages[k] = Message("assistant", Plain(sd_turns[n].reply))

\* a call returns a Function after a passing turn and its confirmation query
C22_Witness ==
    /\ sd_result.kind = "Function"
    /\ Len(sd_turns) >= 2
    /\ sd_turns[Len(sd_turns)].confirm
    /\ PassingTurn(Len(sd_turns) - 1)
    /\ sd_unit_tests >= 1

\* the text the extractor cannot get a function from: its code does not
\* compile
Unparsable(r) == r \in Texts /\ parse_function(r).raises # None

\* C23: extraction failure handling.  When extraction fails on the reply of
\* a candidate turn, the rest of the outer retry is abandoned: the next
\* turn of the call, if there is one, belongs to a later outer retry.  When
\* extraction fails on the reply of the confirmation turn, the call returns
\* the validated candidate of the previous turn, callable and source.
C23_ExtractionFailureHandled ==
    LET n == Len(sd_turns) IN
    /\ \A i \in 1..n :
          ( ~sd_turns[i].confirm /\ Unparsable(sd_turns[i].reply) /\ i < n )
          => sd_turns[i + 1].try > sd_turns[i].try
    /\ ( /\ SDEnded
         /\ n >= 2
         /\ sd_turns[n].confirm
         /\ PassingTurn(n - 1)
         /\ Unparsable(sd_turns[n].reply) )
       => /\ sd_result.kind = "Function"
          /\ sd_result.function = Blocks(sd_turns[n - 1].reply)[1].fn
          /\ sd_result.source = sd_turns[n - 1].reply

\* C24: a transport failure is never fatal in self-debug.  A call does not
\* end by an exception that a failed query raised or left behind, whichever
\* query failed (candidate, confirmation, explanation or trace); and when
\* the confirmation query after a passing turn fails in transport, the call
\* returns that turn's validated candidate.
C24_TransportFailureNotFatal ==
    LET n == Len(sd_turns) IN
    SDEnded =>
       /\ sd_result.kind \notin {"JSONDecodeError", "UnboundLocalError"}
       /\ ( /\ n >= 2
            /\ sd_turns[n].confirm
            /\ sd_turns[n].reply \in TransportErrors
            /\ PassingTurn(n - 1) )
          => /\ sd_result.kind = "Function"
             /\ sd_result.function = Blocks(sd_turns[n - 1].reply)[1].fn
             /\ sd_result.source = sd_turns[n - 1].reply

\* C25: conversation restart per outer retry.  Every outer retry starts
\* from the reset conversation: at the first turn of an outer retry the
\* conversation holds the system message and the rendered prompt only.
C25_ConversationRestart ==
    (sd_pc = "turn" /\ turn = 0) => messages = InitialMessages

\* after the system message the roles of m alternate user, assistant, ...
Alternates(m) ==
    /\ Len(m) >= 2
    /\ m[1].role = "system"
    /\ \A i \in 2..Len(m) :
          m[i].role = IF i % 2 = 0 THEN "user" ELSE "assistant"

\* C26: the shape of every request.  The conversation a candidate or
\* confirmation query is about to be sent with alternates user, assistant,
\* ... after the system message and ends with a user message; the
\* conversation the feedback step extends by its user message before an
\* explanation or trace query ends with an assistant message.
C26_QueryAfterUserMessage ==
    /\ sd_pc = "turn"
       => /\ Alternates(messages)
          /\ messages[Len(messages)].role = "user"
    /\ sd_pc = "feedback"
       => /\ Alternates(messages)
          /\ messages[Len(messages)].role = "assistant"

\* sequence s is a prefix of sequence t
IsPrefix(s, t) ==
    /\ Len(s) <= Len(t)
    /\ \A i \in 1..Len(s) : t[i] = s[i]

\* C27: the conversation is append-only within a call.  Every step leaves
\* the message sequence unchanged or appends messages at its end, and a
\* turn whose query got a reply appends that reply as an assistant message
\* right after the conversation that was sent.
C27_ConversationAppendOnly ==
    [][ /\ IsPrefix(messages, messages')
        /\ ( /\ Len(sd_turns') = Len(sd_turns) + 1
             /\ sd_turns'[Len(sd_turns')].reply \in Texts )
           => /\ Len(messages') > Len(messages)
              /\ messages'[Len(messages) + 1] =
                    Message("assistant", Plain(sd_turns'[Len(sd_turns')].reply))
      ]_vars

\* a second outer retry has appended its reply to the conversation of the
\* first, after a turn with feedback
C27_Witness ==
    /\ Len(sd_turns) >= 3
    /\ sd_turns[Len(sd_turns)].try = 2
    /\ sd_turns[Len(sd_turns)].reply \in Texts
    /\ Len(messages) >= 6
    /\ messages[Len(messages)].role = "assistant"
    /\ IsPrefix(InitialMessages, messages)

\* the messages a step appends to the conversation
Appended == SubSeq(messages', Len(messages) + 1, Len(messages'))

\* the step is the feedback after a failing turn
FeedbackStep == sd_pc = "feedback" /\ sd_pc' # "feedback"

\* m is a user message that lists the failing cases `failures`
IsListing(m) ==
    /\ m.role = "user"
    /\ m.content.text = "fails_please_fix"
    /\ Len(m.content.lines) = Len(failures)
    /\ Len(failures) >= 1

\* the feedback of modes simple and ut: no query, one user message
OneUserMessage ==
    /\ sd_nQueries' = sd_nQueries
    /\ Len(Appended) = 1
    /\ Appended[1].role = "user"

\* C28 as stated: explanation feedback mode.  In mode ut+expl each failing
\* turn issues exactly one extra query and appends, in this order, the
\* user request to explain the code, the explanation as an assistant
\* message and the user message listing the failing cases; in modes simple
\* and ut a failing turn issues no query and appends one user message.
C28_ExplanationFeedback ==
    [][ FeedbackStep =>
          /\ feedback_mode = "ut+expl"
             => /\ sd_nQueries' = sd_nQueries + 1
                /\ Len(Appended) = 3
                /\ Appended[1] = Message("user", Plain("explain_line_by_line"))
                /\ Appended[2].role = "assistant"
                /\ IsListing(Appended[3])
          /\ feedback_mode \in {"simple", "ut"} => OneUserMessage
      ]_vars

\* C28 amended: in mode ut+expl each failing turn appends the user request
\* to explain the code and issues exactly one extra query; when the query
\* is answered the turn appends the explanation as an assistant message and
\* then the user message listing the failing cases, and when the query
\* fails in transport the turn appends nothing more.  In modes simple and
\* ut a failing turn issues no query and appends one user message.
C28_ExplanationFeedbackAnswered ==
    [][ FeedbackStep =>
          LET x == sd_turns'[Len(sd_turns')].extra IN
          /\ feedback_mode = "ut+expl"
             => /\ sd_nQueries' = sd_nQueries + 1
                /\ Len(Appended) >= 1
                /\ Appended[1] = Message("user", Plain("explain_line_by_line"))
                /\ x \in TransportErrors => Len(Appended) = 1
                /\ x \notin TransportErrors
                   => /\ Len(Appended) = 3
                      /\ Appended[2] = Message("assistant", Plain(x))
                      /\ IsListing(Appended[3])
          /\ feedback_mode \in {"simple", "ut"} => OneUserMessage
      ]_vars

\* a failing turn in mode ut+expl whose explanation query was answered has
\* appended the request, the explanation and the listing
C28_Witness ==
    LET k == Len(messages) IN
    /\ feedback_mode = "ut+expl"
    /\ Len(sd_turns) >= 1
    /\ sd_turns[Len(sd_turns)].extra = "explanation"
    /\ k >= 6
    /\ messages[k - 2] = Message("user", Plain("explain_line_by_line"))
    /\ messages[k - 1] = Message("assistant", Plain("explanation"))
    /\ messages[k].content.text = "fails_please_fix"
    /\ Len(messages[k].content.lines) >= 1

\* C29: trace feedback mode.  In mode ut+trace the feedback after a failing
\* turn asks the model to trace the execution on the input of the first
\* failing case, the one with the lowest case index; and when the model
\* has answered with its trace, the trace is appended as an assistant
\* message and then a generic instruction to fix the code as a user message.
C29_TraceFirstFailingCase ==
    [][ (FeedbackStep /\ feedback_mode = "ut+trace") =>
          LET x == sd_turns'[Len(sd_turns')].extra IN
          /\ Len(Appended) >= 1
          /\ Appended[1].role = "user"
          /\ Appended[1].content.trace = failures[1].x
          /\ \A i \in 1..Len(failures) : failures[1].id <= failures[i].id
          /\ x \notin TransportErrors
             => /\ Len(Appended) = 3
                /\ Appended[2] = Message("assistant", Plain(x))
                /\ Appended[3] = Message("user", Plain("please_fix"))
      ]_vars

\* the lines ls list the failed results of rs, each once and in case
\* order, with input, expected output and actual output or error, and
\* nothing else
ListsFailures(ls, rs) ==
    LET F == {i \in 1..Len(rs) : failed(rs[i])} IN
    /\ Len(ls) = Cardinality(F)
    /\ \A i \in F : \E j \in 1..Len(ls) : Reports(ls[j], rs[i])
    /\ \A j \in 1..Len(ls) : \E i \in F : Reports(ls[j], rs[i])
    /\ \A j, k \in 1..Len(ls) : j < k => ls[j].x < ls[k].x

\* a message that carries the unit test feedback
IsFeedback(m) ==
    /\ m.role = "user"
    /\ m.content.text \in {"fails_please_fix", "fails_trace"}

\* C30: unit-test feedback content.  The feedback message built after a
\* failing turn (first message of modes ut and ut+trace, last message of an
\* answered turn of mode ut+expl) lists every case the candidate failed
\* exactly once, in case order, each with its input, its expected output
\* and its actual output or its error, and lists no case it passed.
C30_FeedbackListsFailingCases ==
    [][ FeedbackStep =>
          LET rs == sd_unit_test(sd_function, sd_unit_tests)
              x == sd_turns'[Len(sd_turns')].extra
          IN  /\ feedback_mode \in {"ut", "ut+trace"}
                 => Len(Appended) >= 1 /\ IsFeedback(Appended[1])
              /\ (feedback_mode = "ut+expl" /\ x \notin TransportErrors)
                 => Len(Appended) = 3 /\ IsFeedback(Appended[3])
              /\ \A j \in 1..Len(Appended) :
                    IsFeedback(Appended[j])
                    => ListsFailures(Appended[j].content.lines, rs)
      ]_vars

\* a feedback message of mode ut after a turn whose candidate passed the
\* first of two cases and failed the second
C30_Witness ==
    LET k == Len(messages) IN
    /\ feedback_mode = "ut"
    /\ sd_unit_tests = 2
    /\ k >= 4
    /\ IsFeedback(messages[k])
    /\ Len(messages[k].content.lines) = 1
    /\ messages[k].content.lines[1].x = 2
    /\ messages[k - 1] = Message("assistant", Plain(sd_model_response))
    /\ ~failed(sd_unit_test(sd_function, 2)[1])

\* the seeds the queries of turn i carried: the candidate or confirmation
\* query and, when the turn asked one, the explanation or trace query
TurnSeeds(i) ==
    {sd_turns[i].seed} \cup
    (IF sd_turns[i].extra # None THEN {sd_turns[i].extra_seed} ELSE {})

\* C31: fresh seed per attempt.  On the cache-miss path every query of an
\* attempt of CodeLLM.def_function carries a seed drawn for it; every outer
\* retry of SelfDebugLLM.def_function has drawn a seed before its first
\* query, and every query of one outer retry carries the same seed, the
\* one drawn at the head of that outer retry.
C31_FreshSeedPerAttempt ==
    /\ \A c \in Callers : nQueries[c] >= 1 => query_seed[c] \in Seeds
    /\ sd_pc \in {"turn", "feedback"} => sd_seed \in Seeds
    /\ \A i, j \in 1..Len(sd_turns) :
          sd_turns[i].try = sd_turns[j].try => TurnSeeds(i) = TurnSeeds(j)
    /\ \A i \in 1..Len(sd_turns) :
          sd_turns[i].try = sd_cur_try => TurnSeeds(i) = {sd_seed}

\* the turns of outer retry t
TurnsOf(t) == {i \in 1..Len(sd_turns) : sd_turns[i].try = t}

\* the turns that asked an explanation or trace query
Asked == {i \in 1..Len(sd_turns) : sd_turns[i].extra # None}

\* the candidate of turn i failed a supplied case
FailingTurn(i) ==
    /\ sd_turns[i].reply \in Texts
    /\ \E k \in 1..sd_unit_tests :
          failed(sd_unit_test(parse_function(sd_turns[i].reply).fn, sd_unit_tests)[k])

\* the work of a call so far is bounded
BoundedWork ==
    /\ \A i \in 1..Len(sd_turns) : sd_turns[i].try \in 1..sd_n_retries
    /\ \A t \in 1..sd_n_retries : Cardinality(TurnsOf(t)) <= max_turns
    /\ Len(sd_turns) <= sd_n_retries * max_turns
    /\ \A i \in Asked : FailingTurn(i)
    /\ sd_nQueries = Len(sd_turns) + Cardinality(Asked)

\* C32: bounded work and termination of the self-debug loop.  When every
\* model query and every test run returns, a call ends; it issues at most
\* n_retries x max_turns candidate and confirmation queries, at most
\* max_turns in each outer retry, and besides them only one explanation or
\* trace query for a turn whose candidate failed.
C32_BoundedWorkAndTermination ==
    /\ []BoundedWork
    /\ (sd_pc \in {"retry", "turn", "feedback"}) ~> (sd_pc = "done")

\* a call has ended after it used every turn of every outer retry, with an
\* explanation or trace query in a failing turn
C32_Witness ==
    /\ sd_pc = "done"
    /\ sd_n_retries = MaxRetries
    /\ Len(sd_turns) = sd_n_retries * max_turns
    /\ max_turns = DefaultMaxTurns
    /\ Asked # {}
    /\ sd_nQueries > Len(sd_turns)

\* the steps of the store of caller c: the read (lines 208-209) with the
\* merge, and the write (lines 217-218) with the return
StoreReadStep(c) == phase[c] = "store_read" /\ phase'[c] = "store_write"
StoreWriteStep(c) == phase[c] = "store_write" /\ phase'[c] = "idle"

\* C33: the store is a read-merge-write of one key.  With one caller, the
\* mapping a store builds from the file it read differs from that file in
\* the entry of its prompt only, which is the entry of this call; nothing
\* changes the mapping before it is written, and the write leaves the file
\* holding exactly that mapping: every other prompt's entry is what it was
\* before the store, and the prompt has one entry, the one written last.
C33_StoreOneKey ==
    [][ \A c \in Callers :
          /\ StoreReadStep(c)
             => /\ \A q \in Prompts \ {prompt[c]} :
                      new_cache'[c][q] = cache_file.map[q]
                /\ new_cache'[c][prompt[c]] =
                      Entry(model_response[c], SeedOf(sampling_params[c]))
          /\ (phase[c] = "store_write" /\ phase'[c] = "store_write")
             => new_cache'[c] = new_cache[c]
          /\ StoreWriteStep(c)
             => /\ Loads(cache_file')
                /\ cache_file'.map = new_cache[c]
      ]_vars

\* a store for one prompt has ended while the cache holds the entry of an
\* earlier call for the other prompt, with another text
C33_Witness ==
    /\ result["c1"].kind = "Function"
    /\ result["c1"].line = 220
    /\ ~cache_hit["c1"]
    /\ Loads(cache_file)
    /\ \A q \in Prompts : cache_file.map[q] # Absent
    /\ cache_file.map["p1"].model_response # cache_file.map["p2"].model_response
    /\ cache_file.map[prompt["c1"]].model_response = result["c1"].source

\* the mapping the cache file stands for: a file that is missing or that
\* json.load rejects is taken as the empty mapping (caching.py lines 48-60)
CacheMap(f) == IF Loads(f) THEN f.map ELSE EmptyMap

\* caller c opens the cache file for writing
OpensForWrite(c) == file_open[c] # "w" /\ file_open'[c] = "w"

\* C34: cache frame.  CodeLLM.def_function writes the cache only when an
\* attempt was accepted on the cache-miss path: no step of a call that hit
\* the cache, and no step of a call that ends in TooManyRetries, opens the
\* cache file for writing or changes the mapping it holds.
C34_CacheFrame ==
    [][ \A c \in Callers :
          /\ OpensForWrite(c) => ~cache_hit[c]
          /\ (phase[c] # "idle" /\ CacheMap(cache_file') # CacheMap(cache_file))
             => /\ ~cache_hit[c]
                /\ phase[c] = "store_write"
          /\ (phase'[c] = "idle" /\ result'[c].kind = "TooManyRetries")
             => cache_file' = cache_file
      ]_vars

\* C35: extractor selection order.  parse_function on a text with a def
\* block returns the function that the first top-level def of the first
\* block defines: not a later block's function, not a function bound to
\* the name of a nested def, and not a value an earlier extraction left in
\* the namespace under one of the text's names.
C35_ExtractorSelectionOrder ==
    \A t \in Callers :
        ( /\ pf_pc[t] = "done"
          /\ HasBlock(input_string[t])
          /\ pf_result[t].kind = "callable" )
        => /\ pf_result[t].fn = input_string[t]
           /\ namespace[NameOf(input_string[t])] = pf_result[t].fn

\* what C36 says of a call of c that has ended: it read no cached entry,
\* it issued a query, and a Function it returned has the text of its last
\* attempt, which is the text the cache now holds for the prompt
UncachedCall(c) ==
    /\ ~cache_hit[c]
    /\ cache_entry[c] = Absent
    /\ nQueries[c] >= 1
    /\ result[c].kind = "Function"
       => /\ result[c].source = attempts[c][Len(attempts[c])]
          /\ result[c].cached.model_response = result[c].source

\* C36: with use_cached=False, def_function never reads a cached
\* entry, issues at least one model query even when the cache holds an
\* entry for the prompt, and on acceptance overwrites the entry of the
\* prompt with the new response.
C36_UseCachedFalse ==
    \A c \in Callers : (Ended(c) /\ ~use_cached[c]) => UncachedCall(c)

(***************************************************************************)
(* evaluate.eval_row                                                       *)
(***************************************************************************)
\* lines 36-41: 1 when def_function returned, whatever it returned; 0 when
\* it raised, whatever it raised.  res is how the call ended; a call of
\* SelfDebugLLM.def_function that fell off the end has returned None.
eval_row(res) == IF res.kind \in {"Function", "NoneReturned"} THEN 1 ELSE 0

LockOnlyInEnter ==
    \A c \in Callers :
        lock = c => /\ ch[c] = "validate"
                    /\ phase[c] \in {"lookup", "store_read", "store_write"}

CacheReplies == {"pass_a", "fail_wrong", "err_json"}

NextSDCache ==
    \/ sd_def_function_again({"p1"}, BOOLEAN, {1}, 1..DefaultMaxTurns, {1})
    \/ SDOuter({1})
    \/ SDTurn(CacheReplies)
    \/ SDFeedback
    \/ \E c \in {"c1"} :
          \/ def_function(c, {"p1"}, {1}, {0}, BOOLEAN)
          \/ Acquire(c)
          \/ Validate(c)
          \/ Open(c)
          \/ LookupBody(c)
          \/ Attempt(c, {"pass_a", "err_json"}, {1})
          \/ LoopExhausted(c)
          \/ StoreReadBody(c)
          \/ StoreWriteBody(c)

SpecSDCache == Init /\ [][NextSDCache]_vars

\* a step of SelfDebugLLM.def_function
SDStep == sdVars' # sdVars

\* a call with the prompt of the call before it has ended, having run its
\* loops
SDRepeated ==
    /\ sd_pc = "done"
    /\ sd_prev.prompt = sd_prompt
    /\ prompt_template # "PromptTemplate"
    /\ sd_n_retries >= 1
    /\ max_turns >= 1

\* the cache holds an entry for the prompt of the call
SDPromptCached == Loads(cache_file) /\ cache_file.map[sd_prompt] # Absent

\* C39: SelfDebugLLM.def_function never reads or writes the response cache,
\* whatever use_cached is: no step of a call changes the cache file, takes
\* the cache lock or opens the file, and a repeated call with the same
\* prompt issues model queries again, also when the cache holds an entry for
\* the prompt.
C39_SelfDebugIgnoresCache ==
    /\ [][SDStep => /\ cache_file' = cache_file
                    /\ lock' = lock
                    /\ file_open' = file_open]_vars
    /\ [](SDRepeated => sd_nQueries >= 1)

\* a repeated call with use_cached=True has ended while the cache holds an
\* entry for its prompt; it and the call before it issued queries
C39_Witness ==
    /\ SDRepeated
    /\ sd_use_cached
    /\ SDPromptCached
    /\ sd_prev.queries >= 1
    /\ sd_nQueries >= 1

\* The file of caching.py line 26 lives in the user's cache directory and
\* outlives the process; globals() of the parser's module (regex_parser.py
\* line 57) and the default SamplingParams objects do not.  A new run of the
\* program starts when no call and no extraction is in progress.
NewProcess ==
    /\ \A c \in Callers : phase[c] = "idle" /\ pf_pc[c] \in {"idle", "done"}
    /\ sd_pc \in {"idle", "done"}
    /\ namespace # [n \in Names |-> None]
    /\ namespace' = [n \in Names |-> None]
    /\ ns_order' = <<>>
    /\ pf_pc' = [t \in Callers |-> "idle"]
    /\ resized' = [t \in Callers |-> FALSE]
    /\ pf_result' = [t \in Callers |-> NoParse]
    /\ default_sampling_params' = NoSeed
    /\ sd_default_sampling_params' = NoSeed
    /\ UNCHANGED input_string
    /\ UNCHANGED <<cache_file, lock, file_open, phase, ch, prompt, use_cached,
                   n_retries, unit_tests, model_response, function, cur_try,
                   new_cache, result, sampling_params, nQueries, attempts,
                   cache_hit, cache_entry, query_seed, stored>>
    /\ UNCHANGED <<sd_pc, feedback_mode, prompt_template, sd_n_retries, max_turns,
                   sd_unit_tests, sd_cur_try, turn, messages, success_feedback,
                   success_turn_function, success_turn_model_response,
                   sd_model_response, sd_function, failures, sd_result, sd_seed,
                   sd_nQueries, sd_turns>>
    /\ UNCHANGED sdCallVars
    /\ UNCHANGED utVars

\* Runs of the program one after another over one cache file: in each, an
\* extraction may bind g in the parser's namespace, and two callers call
\* CodeLLM.def_function for one prompt; the model's reply defines f with a
\* default value that calls g.
ReparseReplies == {"def_f_default_g", "err_json"}

NextReparse ==
    \/ PFCall("c2", {"def_g"})
    \/ PFExec("c2")
    \/ PFLookup("c2")
    \/ NewProcess
    \/ \E c \in Callers :
          \/ def_function(c, {"p1"}, {1}, {0}, BOOLEAN)
          \/ Acquire(c)
          \/ Validate(c)
          \/ Open(c)
          \/ LookupBody(c)
          \/ Attempt(c, ReparseReplies, {1})
          \/ LoopExhausted(c)
          \/ StoreReadBody(c)
          \/ StoreWriteBody(c)

SpecReparse == Init /\ [][NextReparse]_vars

\* caller c is at the body of the lookup, the cache file holds an entry for
\* its prompt, and the parser raises on the stored text
ReparseFails(c) ==
    /\ phase[c] = "lookup"
    /\ ch[c] = "body"
    /\ Loads(cache_file)
    /\ cache_file.map[prompt[c]] # Absent
    /\ parse_function(cache_file.map[prompt[c]].model_response).raises # None

\* the call of c ended with the parser's exception at line 137, having
\* issued no query
FailedOnHit(c) ==
    /\ phase[c] = "idle"
    /\ result[c].kind = "NameError"
    /\ result[c].line = 137
    /\ nQueries[c] = 0

\* C40: when use_cached=True, the cache holds an entry for the prompt and
\* the parser raises on the stored text, CodeLLM.def_function ends with the
\* parser's exception, issues no model query and leaves the cache file as
\* it is; this holds of every call that finds the entry, a later one as the
\* first.
C40_ReparseFailurePropagates ==
    [][\A c \in Callers :
          ReparseFails(c) /\ phase'[c] # phase[c]
          => /\ use_cached[c]
             /\ phase'[c] = "idle"
             /\ result'[c] = Raised(parse_function(cache_file.map[prompt[c]].model_response).raises, 137)
             /\ nQueries'[c] = 0
             /\ nQueries[c] = 0
             /\ cache_file' = cache_file]_vars

\* both callers' calls for the prompt ended with the parser's exception on
\* the stored text, without a query, and the entry is still in the cache
C40_Witness ==
    /\ FailedOnHit("c1")
    /\ FailedOnHit("c2")
    /\ use_cached["c1"] /\ use_cached["c2"]
    /\ prompt["c1"] = prompt["c2"]
    /\ Loads(cache_file)
    /\ cache_file.map[prompt["c1"]].model_response = "def_f_default_g"

====
